---- MODULE Spec2Model ----
(***************************************************************************)
(* The webhook server of whatsapp-translator (src/index.js, lines 1-323):  *)
(* POST /webhook is acknowledged at handler entry and then processed:      *)
(* request validation, signature stage, envelope routing, allow-list       *)
(* check, translation, reply.                                              *)
(*                                                                         *)
(* Conventions.  A JavaScript string is a sequence of string fragments     *)
(* (phone numbers are spelled one character per fragment, so that the      *)
(* digit stripping and the prefix test of the allow-list are computed      *)
(* character by character); string concatenation and template literals    *)
(* are \o.  A JSON object is a record whose DOMAIN holds exactly the keys  *)
(* that are present, a JSON array is a sequence (index 0 of the code is    *)
(* index 1 here).  Every request keeps the ordered trace of what the       *)
(* server did for it: HTTP responses, log lines, calls of the translation  *)
(* client and calls of fetch (the dispatch of a WhatsApp message).         *)
(***************************************************************************)
EXTENDS Integers, Sequences, FiniteSets, TLC

VARIABLES
    NODE_ENV,               \* process.env.NODE_ENV
    ALLOWED_PHONE_NUMBERS,  \* the allow-list built at startup
    pending,                \* per request: the inputs it may still arrive with
    pc,                     \* per request: where its processing stands
    req,                    \* per request: raw body, headers, parsed body
    ctx,                    \* per request: the handler's locals across awaits
    trace,                  \* per request: responses, logs, collaborator calls
    hits                    \* the limiter's store: per client IP, the requests
                            \* to /webhook counted in the current window

vars == <<NODE_ENV, ALLOWED_PHONE_NUMBERS, pending, pc, req, ctx, trace, hits>>

\* Number of request slots of the concurrent specification.
NumRequests == 2

Requests == 1..NumRequests

-----------------------------------------------------------------------------
(* JavaScript helpers *)

Has(o, k) == k \in DOMAIN o

\* the value undefined, where the code goes on with it as a string
Undefined == <<"undefined">>

Includes(list, x) == \E i \in DOMAIN list : list[i] = x

StartsWith(s, p) ==
    /\ Len(p) <= Len(s)
    /\ SubSeq(s, 1, Len(p)) = p

\* s.indexOf(t) !== -1 on fragment sequences
Contains(s, t) ==
    \E i \in 1..(Len(s) - Len(t) + 1) : SubSeq(s, i, i + Len(t) - 1) = t

Digits == {"0", "1", "2", "3", "4", "5", "6", "7", "8", "9"}

IsDigit(c) == c \in Digits

\* num.replace(/\D/g, '')
StripNonDigits(num) == SelectSeq(num, IsDigit)

RECURSIVE SplitFrom(_, _, _, _)
SplitFrom(s, sep, i, cur) ==
    IF i > Len(s) THEN <<cur>>
    ELSE IF s[i] = sep THEN <<cur>> \o SplitFrom(s, sep, i + 1, <<>>)
    ELSE SplitFrom(s, sep, i + 1, Append(cur, s[i]))

\* s.split(',')
Split(s, sep) == SplitFrom(s, sep, 1, <<>>)

-----------------------------------------------------------------------------
(* Startup configuration *)

DEBUG == TRUE

isTestEnvironment(env) == env = "development"

EnvModes == {"production", "development"}

WHATSAPP_TOKEN == "whatsapp-token"

WHATSAPP_VERIFY_TOKEN == "verify-token"

\* the digits of the entry, with no country code added
NormalizeNumber_DigitsOnly(num) == StripNonDigits(num)

\* cleaned.startsWith('1') ? cleaned : `1${cleaned}`
NormalizeNumber(num) ==
    LET cleaned == StripNonDigits(num)
    IN  IF StartsWith(cleaned, <<"1">>) THEN cleaned ELSE <<"1">> \o cleaned

\* process.env.ALLOWED_PHONE_NUMBERS?.split(',').map(...)
BuildAllowList(envValue) ==
    LET parts == Split(envValue, ",")
    IN  [i \in DOMAIN parts |-> NormalizeNumber(parts[i])]

Num15551234567 == <<"1", "5", "5", "5", "1", "2", "3", "4", "5", "6", "7">>
Num5551234567 == <<"5", "5", "5", "1", "2", "3", "4", "5", "6", "7">>
Num19998887777 == <<"1", "9", "9", "9", "8", "8", "8", "7", "7", "7", "7">>
NumDashed == <<"5", "5", "5", "-", "1", "2", "3", "-", "4", "5", "6", "7">>
Num14155550000 == <<"1", "4", "1", "5", "5", "5", "5", "0", "0", "0", "0">>

\* Values of the ALLOWED_PHONE_NUMBERS environment variable
AllowedEnvValues ==
    { Num15551234567,
      NumDashed,
      Num15551234567 \o <<",">> \o Num14155550000,
      Num15551234567 \o <<",">> }

-----------------------------------------------------------------------------
(* Webhook envelopes (the parsed JSON documents a caller can post) *)

WABA == "whatsapp_business_account"

TextHola == <<"Hola">>
TextBonjour == <<"Bonjour">>
TextEmpty == <<>>

PhoneIdA == <<"1", "0", "0", "1">>
PhoneIdB == <<"2", "0", "0", "2">>

Metadata(pid) == [phone_number_id |-> pid]

Message(from, text) == [from |-> from, text |-> [body |-> text]]

MessagesValue(msgs, pid) == [messages |-> msgs, metadata |-> Metadata(pid)]

StatusesValue(pid) ==
    [statuses |-> <<[status |-> "delivered"]>>, metadata |-> Metadata(pid)]

Change(value) == [field |-> "messages", value |-> value]

Entry(changes) == [changes |-> changes]

Envelope(entries) == [object |-> WABA, entry |-> entries]

MessageEnvelope(from, text, pid) ==
    Envelope(<<Entry(<<Change(MessagesValue(<<Message(from, text)>>, pid))>>)>>)

StatusEnvelope(pid) == Envelope(<<Entry(<<Change(StatusesValue(pid))>>)>>)

Senders == {Num15551234567, Num5551234567, Num19998887777}

WellFormedMessages ==
    { MessageEnvelope(f, t, PhoneIdA) : f \in Senders, t \in {TextHola, TextEmpty} }
      \cup { MessageEnvelope(Num15551234567, TextBonjour, PhoneIdB) }

\* Envelopes that miss a part, or carry more than one
OddEnvelopes ==
    { [entry |-> <<Entry(<<Change(StatusesValue(PhoneIdA))>>)>>],
      [object |-> "page",
       entry |-> <<Entry(<<Change(MessagesValue(
                     <<Message(Num15551234567, TextHola)>>, PhoneIdA))>>)>>],
      [object |-> WABA],
      Envelope(<<>>),
      Envelope(<<[id |-> "0"]>>),
      Envelope(<<Entry(<<>>)>>),
      Envelope(<<Entry(<<[field |-> "messages"]>>)>>),
      Envelope(<<Entry(<<Change([metadata |-> Metadata(PhoneIdA)])>>)>>),
      Envelope(<<Entry(<<Change(MessagesValue(<<>>, PhoneIdA))>>)>>),
      Envelope(<<Entry(<<Change(MessagesValue(
                     <<[from |-> Num15551234567]>>, PhoneIdA))>>)>>),
      Envelope(<<Entry(<<Change(MessagesValue(
                     <<[from |-> Num15551234567, text |-> [preview |-> "x"]]>>,
                     PhoneIdA))>>)>>),
      Envelope(<<Entry(<<Change(MessagesValue(
                     <<[text |-> [body |-> TextHola]]>>, PhoneIdA))>>)>>),
      Envelope(<<Entry(<<Change(
                     [messages |-> <<Message(Num15551234567, TextHola)>>])>>)>>),
      Envelope(<<Entry(<<Change(MessagesValue(
                     <<Message(Num15551234567, TextHola),
                       Message(Num19998887777, TextBonjour)>>, PhoneIdA))>>)>>),
      Envelope(<<Entry(<<Change(MessagesValue(
                     <<Message(Num15551234567, TextHola)>>, PhoneIdA)),
                   Change(StatusesValue(PhoneIdB))>>),
                 Entry(<<Change(MessagesValue(
                     <<Message(Num19998887777, TextBonjour)>>, PhoneIdB))>>)>>),
      Envelope(<<Entry(<<Change(
                     [messages |-> <<Message(Num15551234567, TextHola)>>,
                      statuses |-> <<[status |-> "read"]>>,
                      metadata |-> Metadata(PhoneIdA)])>>)>>),
      Envelope(<<Entry(<<Change(StatusesValue(PhoneIdA))>>),
                 Entry(<<Change(MessagesValue(
                     <<Message(Num19998887777, TextBonjour)>>, PhoneIdB))>>)>>) }

Envelopes == WellFormedMessages \cup {StatusEnvelope(PhoneIdA)} \cup OddEnvelopes

-----------------------------------------------------------------------------
(* Request bytes, JSON and the signature header *)

\* The bytes of a request body: the document they encode and the byte-level
\* rendering (whitespace, \u escapes) that parsing discards.
Renderings == {"compact", "escaped"}

RawBody(doc, fmt) == [doc |-> doc, fmt |-> fmt]

MalformedBody == [garbage |-> "{\"object\":"]

IsJson(raw) == Has(raw, "doc")

\* JSON.parse, as bodyParser.json() applies it to the request bytes
JSONparse(raw) == raw.doc

\* JSON.stringify(value): the compact rendering of the value
JSONstringify(value) == RawBody(value, "compact")

\* crypto.createHmac('sha256', key).update(data).digest('hex')
HmacSha256Hex(key, data) == [key |-> key, data |-> data]

\* Buffer.from(string): the UTF-8 bytes of the string
BufferFrom(data) == data

\* A header value: a scheme prefix followed by a hex digest, or another string
HeaderString(prefix, digest) == [prefix |-> prefix, digest |-> digest]

EmptyString == HeaderString("", [key |-> "", data |-> MalformedBody])

\* `sha256=${hex}`
Sha256Header(hex) == HeaderString("sha256=", hex)

\* The signature the platform attaches: over the exact bytes it sends
PlatformSignature(secret, raw) == Sha256Header(HmacSha256Hex(secret, raw))

\* hex characters of a SHA-256 digest
HexDigestLength == 64

\* characters of 'sha256='
SchemeLength == 7

\* hex positions at which a guessed signature is first wrong
ForgedPositions == {1, 33}

\* a caller's guess: `sha256=${hex}` with the hex character at position
\* wrongAt replaced, everything before it right
Forged(hex, wrongAt) ==
    [prefix |-> "sha256=", digest |-> hex, wrongAt |-> wrongAt]

\* string.length of a header value
Length(s) == IF s.prefix = "" THEN 0 ELSE SchemeLength + HexDigestLength

\* a === b on two strings: the lengths are compared, then the code units
\* from the left until one differs.  The result is the number of code units
\* read.  Digests of different keys or data are taken to differ from their
\* first character.
StrictEqualsSteps(a, b) ==
    IF Length(a) # Length(b) THEN 0
    ELSE IF a = b THEN Length(a)
    ELSE IF Has(a, "wrongAt") /\ a.digest = b.digest THEN SchemeLength + a.wrongAt
    ELSE SchemeLength + 1

SigHeader == "x-hub-signature-256"

NoHeaders == "content-type" :> "application/json"

WithSignature(value) == NoHeaders @@ (SigHeader :> value)

-----------------------------------------------------------------------------
(* What the server does for a request, in order *)

Response(status, body) == [op |-> "response", status |-> status, body |-> body]

Log(msg) == [op |-> "log", msg |-> msg]

\* one evaluation of === on the signature and the work it took
Compare(steps) == [op |-> "compare", steps |-> steps]

\* translate.translate(text, target)
TranslateCall(text, target) == [op |-> "translate", text |-> text, target |-> target]

\* the url built from a configured id instead of the argument
FetchCall_StaticId(phone_number_id, to, message) ==
    [op |-> "fetch", phone_number_id |-> <<"1", "0", "0", "1">>, to |-> to,
     message |-> message]

\* fetch(`https://graph.facebook.com/v18.0/${phone_number_id}/messages`, ...)
FetchCall(phone_number_id, to, message) ==
    [op |-> "fetch", phone_number_id |-> phone_number_id, to |-> to,
     message |-> message]

TextBodyOf(text) == [type |-> "text", text |-> text]

CourtesyText ==
    <<"Sorry, this translation service is currently restricted to authorized users only.">>

\* `Translated text: ${translation}`
ReplyText_NoTranslation(translation) == <<"Translated text: ">>

ReplyText(translation) == <<"Translated text: ">> \o translation

\* The handler's locals and what the stages decided
NoCtx ==
    [sig |-> "none", auth |-> "none", branch |-> "none",
     phone_number_id |-> <<>>, from |-> <<>>, msg_body |-> <<>>]

\* What one synchronous run of handler code did and where it stopped
Outcome(events, next, c) == [events |-> events, pc |-> next, ctx |-> c]

Completed == <<Log("Processing completed successfully")>>

OuterCatch == <<Log("Error processing webhook")>>

-----------------------------------------------------------------------------
(* Request validation (express-validator chains of the route).  The chains *)
(* only record errors; the handler reads them at line 145.                 *)

EntryIdx(b) == IF Has(b, "entry") THEN DOMAIN b.entry ELSE {}

ChangeIdx(b, i) ==
    IF Has(b.entry[i], "changes") THEN DOMAIN b.entry[i].changes ELSE {}

\* the instances of entry.*.changes.*
ChangePaths(b) ==
    UNION { { <<i, j>> : j \in ChangeIdx(b, i) } : i \in EntryIdx(b) }

MessagesAt(b, p) ==
    LET c == b.entry[p[1]].changes[p[2]]
    IN  IF Has(c, "value") /\ Has(c.value, "messages") THEN c.value.messages ELSE <<>>

\* the instances of entry.*.changes.*.value.messages.*: a wildcard over a
\* missing or empty collection selects nothing, and nothing is then checked
MessageInstances(b) ==
    UNION { { MessagesAt(b, p)[k] : k \in DOMAIN MessagesAt(b, p) } : p \in ChangePaths(b) }

HasPhoneNumberId(b, p) ==
    LET c == b.entry[p[1]].changes[p[2]]
    IN  /\ Has(c, "value")
        /\ Has(c.value, "metadata")
        /\ Has(c.value.metadata, "phone_number_id")

\* the chains of lines 119-122 without the header chain of line 123
ValidationErrors_BodyOnly(b, headers) ==
    (IF Has(b, "object") THEN {} ELSE {"object"})
    \cup (IF \E m \in MessageInstances(b) : ~(Has(m, "text") /\ Has(m.text, "body"))
          THEN {"entry.*.changes.*.value.messages.*.text.body"} ELSE {})
    \cup (IF \E p \in ChangePaths(b) : ~HasPhoneNumberId(b, p)
          THEN {"entry.*.changes.*.value.metadata.phone_number_id"} ELSE {})
    \cup (IF \E m \in MessageInstances(b) : ~Has(m, "from")
          THEN {"entry.*.changes.*.value.messages.*.from"} ELSE {})

\* .exists() fails on undefined only: an empty string exists
ValidationErrors(b, headers) ==
    (IF Has(b, "object") THEN {} ELSE {"object"})
    \cup (IF \E m \in MessageInstances(b) : ~(Has(m, "text") /\ Has(m.text, "body"))
          THEN {"entry.*.changes.*.value.messages.*.text.body"} ELSE {})
    \cup (IF \E p \in ChangePaths(b) : ~HasPhoneNumberId(b, p)
          THEN {"entry.*.changes.*.value.metadata.phone_number_id"} ELSE {})
    \cup (IF \E m \in MessageInstances(b) : ~Has(m, "from")
          THEN {"entry.*.changes.*.value.messages.*.from"} ELSE {})
    \cup (IF Has(headers, SigHeader) THEN {} ELSE {SigHeader})

-----------------------------------------------------------------------------
(* Signature stage *)

SignatureDecision(class, go, events) == [class |-> class, go |-> go, events |-> events]

\* the signature checked in every mode, a mismatch rejected
SignatureStage_Enforcing(env, headers, b) ==
    LET signature == IF Has(headers, SigHeader) THEN headers[SigHeader]
                     ELSE EmptyString
        expected == Sha256Header(HmacSha256Hex(WHATSAPP_TOKEN, JSONstringify(b)))
    IN  IF signature = expected
        THEN SignatureDecision("verified", TRUE,
                 <<Log("Signature verified successfully")>>)
        ELSE SignatureDecision("invalid", FALSE, <<Log("Invalid signature received")>>)

SignatureStage(env, headers, b) ==
    IF env = "production" /\ ~isTestEnvironment(env)
    THEN LET \* req.header(name) is undefined for a header that is not sent,
             \* and undefined is falsy like the empty string
             signature == IF Has(headers, SigHeader) THEN headers[SigHeader]
                          ELSE EmptyString
             bodyString == JSONstringify(b)
             expectedSignature1 == HmacSha256Hex(WHATSAPP_TOKEN, bodyString)
             expectedSignature2 == HmacSha256Hex(WHATSAPP_TOKEN, BufferFrom(bodyString))
             \* line 189: the second === is evaluated when the first is false
             compared ==
                 <<Compare(StrictEqualsSteps(signature, Sha256Header(expectedSignature1)))>>
                 \o (IF signature = Sha256Header(expectedSignature1) THEN <<>>
                     ELSE <<Compare(StrictEqualsSteps(signature,
                                                      Sha256Header(expectedSignature2)))>>)
         IN  IF signature = EmptyString /\ DEBUG
             THEN SignatureDecision("missing", TRUE,
                      <<Log("Missing signature, but continuing due to DEBUG mode")>>)
             ELSE IF signature = EmptyString
             THEN SignatureDecision("missing", FALSE, <<Log("Missing signature")>>)
             ELSE IF \/ signature = Sha256Header(expectedSignature1)
                     \/ signature = Sha256Header(expectedSignature2)
             THEN SignatureDecision("verified", TRUE,
                      compared \o <<Log("Signature verified successfully")>>)
             ELSE IF DEBUG
             THEN SignatureDecision("invalid", TRUE,
                      compared
                      \o <<Log("Invalid signature received, but continuing due to DEBUG mode")>>)
             ELSE SignatureDecision("invalid", FALSE,
                      compared \o <<Log("Invalid signature received")>>)
    ELSE SignatureDecision("skipped", TRUE, <<>>)

-----------------------------------------------------------------------------
(* Envelope routing, allow-list check and the call of the translation *)

\* lines 241-249: the locals are read and translate.translate is called; a
\* property read on undefined is caught by the catch of line 256
TranslateStage(c, value, message) ==
    IF /\ Has(value, "metadata")
       /\ Has(message, "text")
    THEN LET phone_number_id ==
                 IF Has(value.metadata, "phone_number_id")
                 THEN value.metadata.phone_number_id ELSE Undefined
             msg_body ==
                 IF Has(message.text, "body") THEN message.text.body ELSE Undefined
         IN  Outcome(<<TranslateCall(msg_body, "en")>>, "awaitTranslate",
                     [c EXCEPT !.branch = "reply",
                               !.phone_number_id = phone_number_id,
                               !.msg_body = msg_body])
    ELSE Outcome(<<Log("Translation error")>> \o Completed, "done", c)

\* the bypass of line 237 without its log line
MessageStage_SilentBypass(allowed, c, value) ==
    IF Len(value.messages) = 0
    THEN \* message is undefined: reading message.from throws (line 220)
         Outcome(OuterCatch, "done", c)
    ELSE LET message == value.messages[1]
             from == IF Has(message, "from") THEN message.from ELSE Undefined
             listed == Includes(allowed, from)
         IN  IF ~listed /\ ~DEBUG
             THEN IF Has(value, "metadata")
                  THEN LET phone_number_id ==
                               IF Has(value.metadata, "phone_number_id")
                               THEN value.metadata.phone_number_id ELSE Undefined
                       IN  Outcome(
                               <<Log("Unauthorized phone number attempted to use bot"),
                                 FetchCall(phone_number_id, from, CourtesyText)>>,
                               "awaitFetch",
                               [c EXCEPT !.auth = "denied", !.branch = "courtesy",
                                         !.from = from,
                                         !.phone_number_id = phone_number_id])
                  ELSE Outcome(OuterCatch, "done", [c EXCEPT !.auth = "denied"])
             ELSE LET bypass == <<>>
                      c1 == [c EXCEPT !.auth = IF listed THEN "match" ELSE "bypassed",
                                      !.from = from]
                      t == TranslateStage(c1, value, message)
                  IN  Outcome(bypass \o t.events, t.pc, t.ctx)

\* the newest message of the batch instead of value.messages[0]
MessageStage_LastMessage(allowed, c, value) ==
    IF Len(value.messages) = 0
    THEN \* message is undefined: reading message.from throws (line 220)
         Outcome(OuterCatch, "done", c)
    ELSE LET message == value.messages[Len(value.messages)]
             from == IF Has(message, "from") THEN message.from ELSE Undefined
             listed == Includes(allowed, from)
         IN  IF ~listed /\ ~DEBUG
             THEN IF Has(value, "metadata")
                  THEN LET phone_number_id ==
                               IF Has(value.metadata, "phone_number_id")
                               THEN value.metadata.phone_number_id ELSE Undefined
                       IN  Outcome(
                               <<Log("Unauthorized phone number attempted to use bot"),
                                 FetchCall(phone_number_id, from, CourtesyText)>>,
                               "awaitFetch",
                               [c EXCEPT !.auth = "denied", !.branch = "courtesy",
                                         !.from = from,
                                         !.phone_number_id = phone_number_id])
                  ELSE Outcome(OuterCatch, "done", [c EXCEPT !.auth = "denied"])
             ELSE LET bypass == IF listed THEN <<>>
                                ELSE <<Log("Unauthorized phone number bypassed in DEBUG mode")>>
                      c1 == [c EXCEPT !.auth = IF listed THEN "match" ELSE "bypassed",
                                      !.from = from]
                      t == TranslateStage(c1, value, message)
                  IN  Outcome(bypass \o t.events, t.pc, t.ctx)

\* lines 218-259
MessageStage(allowed, c, value) ==
    IF Len(value.messages) = 0
    THEN \* message is undefined: reading message.from throws (line 220)
         Outcome(OuterCatch, "done", c)
    ELSE LET message == value.messages[1]
             from == IF Has(message, "from") THEN message.from ELSE Undefined
             listed == Includes(allowed, from)
         IN  IF ~listed /\ ~DEBUG
             THEN IF Has(value, "metadata")
                  THEN LET phone_number_id ==
                               IF Has(value.metadata, "phone_number_id")
                               THEN value.metadata.phone_number_id ELSE Undefined
                       IN  Outcome(
                               <<Log("Unauthorized phone number attempted to use bot"),
                                 FetchCall(phone_number_id, from, CourtesyText)>>,
                               "awaitFetch",
                               [c EXCEPT !.auth = "denied", !.branch = "courtesy",
                                         !.from = from,
                                         !.phone_number_id = phone_number_id])
                  ELSE Outcome(OuterCatch, "done", [c EXCEPT !.auth = "denied"])
             ELSE LET bypass == IF listed THEN <<>>
                                ELSE <<Log("Unauthorized phone number bypassed in DEBUG mode")>>
                      c1 == [c EXCEPT !.auth = IF listed THEN "match" ELSE "bypassed",
                                      !.from = from]
                      t == TranslateStage(c1, value, message)
                  IN  Outcome(bypass \o t.events, t.pc, t.ctx)

StatusStage_Reply(c, value) ==
    Outcome(<<Log("Received status update"),
              FetchCall(value.metadata.phone_number_id, Undefined,
                        <<"Status received">>)>>,
            "awaitFetch", [c EXCEPT !.branch = "courtesy"])

\* lines 260-263, then line 269
StatusStage(c, value) ==
    Outcome(<<Log("Received status update")>> \o Completed, "done", c)

\* the routing without the test of line 208
RouteStage_AnyObject(allowed, c, b) ==
    IF ~Has(b, "entry") \/ Len(b.entry) = 0
    THEN Outcome(OuterCatch, "done", c)
    ELSE LET entry == b.entry[1]
         IN  IF ~Has(entry, "changes") \/ Len(entry.changes) = 0
             THEN Outcome(OuterCatch, "done", c)
             ELSE LET changes == entry.changes[1]
                  IN  IF ~Has(changes, "value")
                      THEN Outcome(OuterCatch, "done", c)
                      ELSE IF Has(changes.value, "messages")
                      THEN MessageStage(allowed, c, changes.value)
                      ELSE IF Has(changes.value, "statuses")
                      THEN StatusStage(c, changes.value)
                      ELSE Outcome(Completed, "done", c)

\* lines 208-269
RouteStage(allowed, c, b) ==
    IF Has(b, "object") /\ b.object = WABA
    THEN IF ~Has(b, "entry") \/ Len(b.entry) = 0
         THEN Outcome(OuterCatch, "done", c)
         ELSE LET entry == b.entry[1]
              IN  IF ~Has(entry, "changes") \/ Len(entry.changes) = 0
                  THEN Outcome(OuterCatch, "done", c)
                  ELSE LET changes == entry.changes[1]
                       IN  IF ~Has(changes, "value")
                           THEN Outcome(OuterCatch, "done", c)
                           ELSE IF Has(changes.value, "messages")
                           THEN MessageStage(allowed, c, changes.value)
                           ELSE IF Has(changes.value, "statuses")
                           THEN StatusStage(c, changes.value)
                           ELSE Outcome(Completed, "done", c)
    ELSE Outcome(<<Log("Invalid request format")>> \o Completed, "done", c)

-----------------------------------------------------------------------------
(* The POST /webhook handler, from its entry to its first await *)

Ack == Response(200, TextBodyOf("OK"))

\* a validation failure answered with 400 after the acknowledgement
ProcessWebhook_Answer400(env, allowed, b, headers) ==
    IF ValidationErrors(b, headers) # {}
    THEN Outcome(<<Log("Validation failed"),
                   Response(400, [type |-> "json", errors |-> ValidationErrors(b, headers)])>>,
                 "done", NoCtx)
    ELSE LET s == SignatureStage(env, headers, b)
             c == [NoCtx EXCEPT !.sig = s.class]
         IN  IF ~s.go
             THEN Outcome(s.events, "done", c)
             ELSE LET r == RouteStage(allowed, c, b)
                  IN  Outcome(s.events \o r.events, r.pc, r.ctx)

\* the routing of lines 208-269 run before the signature stage
ProcessWebhook_RouteFirst(env, allowed, b, headers) ==
    IF ValidationErrors(b, headers) # {}
    THEN Outcome(<<Log("Validation failed")>>, "done", NoCtx)
    ELSE LET s == SignatureStage(env, headers, b)
             c == [NoCtx EXCEPT !.sig = s.class]
             r == RouteStage(allowed, c, b)
         IN  Outcome(r.events \o s.events, r.pc, r.ctx)

\* lines 128-272, after the acknowledgement
ProcessWebhook(env, allowed, b, headers) ==
    IF ValidationErrors(b, headers) # {}
    THEN Outcome(<<Log("Validation failed")>>, "done", NoCtx)
    ELSE LET s == SignatureStage(env, headers, b)
             c == [NoCtx EXCEPT !.sig = s.class]
         IN  IF ~s.go
             THEN Outcome(s.events, "done", c)
             ELSE LET r == RouteStage(allowed, c, b)
                  IN  Outcome(s.events \o r.events, r.pc, r.ctx)

HandlerSync_AckLast(env, allowed, b, headers) ==
    LET p == ProcessWebhook(env, allowed, b, headers)
    IN  Outcome(p.events \o <<Ack>>, p.pc, p.ctx)

\* lines 124-273: res.status(200).send('OK') is the first statement
HandlerSync(env, allowed, b, headers) ==
    LET p == ProcessWebhook(env, allowed, b, headers)
    IN  Outcome(<<Ack>> \o p.events, p.pc, p.ctx)

-----------------------------------------------------------------------------
(* Continuations after the awaits *)

\* What translate.translate can return: [translation, apiResponse]
Translations == { <<"Hello">>, <<>> }

FetchResults == {"ok", "http_error", "network_error"}

OnTranslateResolved_SendTwice(c, translation) ==
    Outcome(<<FetchCall(c.phone_number_id, c.from, ReplyText(translation)),
              FetchCall(c.phone_number_id, c.from, ReplyText(translation))>>,
            "awaitFetch", c)

\* line 252: sendMessage is called and runs to its fetch
OnTranslateResolved(c, translation) ==
    Outcome(<<FetchCall(c.phone_number_id, c.from, ReplyText(translation))>>,
            "awaitFetch", c)

OnTranslateRejected_SendApology(c) ==
    Outcome(<<Log("Translation error"),
              FetchCall(c.phone_number_id, c.from, <<"Translation failed">>)>>,
            "awaitFetch", c)

OnTranslateRejected_Respond500(c) ==
    Outcome(<<Log("Translation error"),
              Response(500, [type |-> "json", error |-> "Translation failed"])>>,
            "done", c)

\* lines 256-259, then line 269
OnTranslateRejected(c) ==
    Outcome(<<Log("Translation error")>> \o Completed, "done", c)

OnFetchSettled_Retry(c, result) ==
    IF result = "ok"
    THEN Outcome(<<Log("Translation successful")>> \o Completed, "done", c)
    ELSE Outcome(<<Log("Error sending message"),
                   FetchCall(c.phone_number_id, c.from, ReplyText(<<>>))>>,
                 "awaitFetch", c)

\* a failed dispatch whose continuation is never resumed
OnFetchSettled_NeverResumed(c, result) ==
    IF result = "ok"
    THEN Outcome(<<Log("Translation successful")>> \o Completed, "done", c)
    ELSE Outcome(<<>>, "suspended", c)

\* the rethrown error of line 308 with no catch around the caller
OnFetchSettled_Propagates(c, result) ==
    IF result = "ok"
    THEN Outcome(<<Log("Translation successful")>> \o Completed, "done", c)
    ELSE Outcome(<<Log("Error sending message"),
                   [op |-> "unhandledRejection"]>>, "done", c)

\* lines 300-309 and the caller's continuation: a reply's failure is caught
\* at line 256, a courtesy reply's at line 270
OnFetchSettled(c, result) ==
    IF result = "ok"
    THEN IF c.branch = "reply"
         THEN Outcome(<<Log("Translation successful")>> \o Completed, "done", c)
         ELSE Outcome(<<>>, "done", c)
    ELSE IF c.branch = "reply"
         THEN Outcome(<<Log("Error sending message"), Log("Translation error")>>
                          \o Completed, "done", c)
         ELSE Outcome(<<Log("Error sending message")>> \o OuterCatch, "done", c)

-----------------------------------------------------------------------------
(* Requests the server can receive *)

RawBodies == { RawBody(d, f) : d \in Envelopes, f \in Renderings } \cup {MalformedBody}

\* Signature headers a caller can attach to the bytes it sends
HeadersFor(raw) ==
    { NoHeaders,
      WithSignature(EmptyString),
      WithSignature(PlatformSignature(WHATSAPP_TOKEN, raw)),
      WithSignature(PlatformSignature("other-secret", raw)) }
    \cup (IF IsJson(raw)
          THEN { WithSignature(PlatformSignature(WHATSAPP_TOKEN, JSONstringify(JSONparse(raw)))) }
               \cup { WithSignature(Forged(HmacSha256Hex(WHATSAPP_TOKEN,
                                                         JSONstringify(JSONparse(raw))), k)) :
                        k \in ForgedPositions }
          ELSE {})

PostWebhook(raw, headers) ==
    [method |-> "POST", path |-> "/webhook", raw |-> raw, headers |-> headers]

Get(path, query) ==
    [method |-> "GET", path |-> path, query |-> query, headers |-> NoHeaders]

\* {} : an object without keys
EmptyObject == <<>>

\* Query strings of GET /webhook: each parameter absent, empty or given
VerifyQueries ==
    { m @@ t @@ c :
        m \in { EmptyObject, "hub.mode" :> "", "hub.mode" :> "subscribe",
                "hub.mode" :> "unsubscribe" },
        t \in { EmptyObject, "hub.verify_token" :> "",
                "hub.verify_token" :> WHATSAPP_VERIFY_TOKEN,
                "hub.verify_token" :> "guess" },
        c \in { EmptyObject, "hub.challenge" :> "challenge123" } }

GetInputs ==
    { Get("/webhook", q) : q \in VerifyQueries }
    \cup { Get("/", EmptyObject), Get("/health", EmptyObject) }

AllInputs ==
    UNION { { PostWebhook(raw, h) : h \in HeadersFor(raw) } : raw \in RawBodies }
    \cup GetInputs

\* The inputs of the concurrent specification
ConcurrentInputs ==
    UNION { { PostWebhook(RawBody(d, "compact"), h) :
                h \in { WithSignature(PlatformSignature(WHATSAPP_TOKEN, RawBody(d, "compact"))),
                        WithSignature(PlatformSignature("other-secret", RawBody(d, "compact"))) } } :
            d \in { MessageEnvelope(Num15551234567, TextHola, PhoneIdA),
                    MessageEnvelope(Num19998887777, TextBonjour, PhoneIdB) } }
    \cup { Get("/", EmptyObject), Get("/health", EmptyObject),
           Get("/webhook", ("hub.mode" :> "subscribe")
                           @@ ("hub.verify_token" :> WHATSAPP_VERIFY_TOKEN)
                           @@ ("hub.challenge" :> "challenge123")) }

\* The inputs of the specification with fairness: a message, a status
\* update and the three GET routes
LiveInputs ==
    { PostWebhook(RawBody(d, "compact"),
                  WithSignature(PlatformSignature(WHATSAPP_TOKEN, RawBody(d, "compact")))) :
        d \in { MessageEnvelope(Num19998887777, TextBonjour, PhoneIdB),
                StatusEnvelope(PhoneIdA) } }
    \cup { x \in ConcurrentInputs : x.method = "GET" }

\* Client addresses (req.ip)
IpA == "203.0.113.7"
IpB == "198.51.100.9"

ClientIps == {IpA, IpB}

From(ip, in) == in @@ [ip |-> ip]

\* max: 100
RateLimitMax == 100

\* app.use('/webhook', limiter)
Limited(path) == path = "/webhook"

\* the limiter's answer to a request over the limit
TooManyRequests ==
    Response(429, TextBodyOf("Too many requests, please try again later."))

Limiter_Unlimited(count) == [current |-> count + 1, pass |-> TRUE]

\* rateLimit({ windowMs, max }) on one request of a client whose count in
\* the current window is `count`: the request is counted, and passes while
\* the count does not exceed max
Limiter(count) == [current |-> count + 1, pass |-> count + 1 <= RateLimitMax]

\* The inputs of the limiter's specification: a message, a malformed body,
\* the verification handshake and the two probes, from either client
LimiterInputs ==
    { From(ip, x) :
        ip \in ClientIps,
        x \in { PostWebhook(RawBody(MessageEnvelope(Num15551234567, TextHola, PhoneIdA),
                                    "compact"),
                            WithSignature(PlatformSignature(WHATSAPP_TOKEN,
                                RawBody(MessageEnvelope(Num15551234567, TextHola, PhoneIdA),
                                        "compact")))),
                PostWebhook(MalformedBody, NoHeaders) }
              \cup { y \in ConcurrentInputs : y.method = "GET" } }

\* What the limiter's store can hold for a client when the model starts:
\* nothing, or the count left by earlier requests of the same window
EarlierHits == {0, RateLimitMax - 1, RateLimitMax}

NoRequest == [method |-> "none"]

-----------------------------------------------------------------------------
(* Initial states *)

InitWith(envs, allowedValues, arrivals, counts) ==
    /\ NODE_ENV \in envs
    /\ ALLOWED_PHONE_NUMBERS \in { BuildAllowList(v) : v \in allowedValues }
    /\ pending = arrivals
    /\ pc = [r \in Requests |-> "idle"]
    /\ req = [r \in Requests |-> NoRequest]
    /\ ctx = [r \in Requests |-> NoCtx]
    /\ trace = [r \in Requests |-> <<>>]
    /\ hits \in counts

\* The limiter's store of a server that has just started
NoHits == [ip \in ClientIps |-> 0]

\* One request, every input
Init ==
    InitWith(EnvModes, AllowedEnvValues,
             [r \in Requests |-> IF r = 1 THEN { From(IpA, x) : x \in AllInputs } ELSE {}],
             {NoHits})

\* NumRequests requests in flight together
InitConcurrent ==
    InitWith(EnvModes, {Num15551234567},
             [r \in Requests |-> { From(IpA, x) : x \in ConcurrentInputs }], {NoHits})

\* NumRequests requests in flight together, for the progress properties
InitLive ==
    InitWith(EnvModes, {Num15551234567},
             [r \in Requests |-> { From(IpA, x) : x \in LiveInputs }], {NoHits})

\* NumRequests requests of two clients within one window of the limiter, one
\* client with earlier requests in the window
InitLimiter ==
    InitWith({"production"}, {Num15551234567},
             [r \in Requests |-> LimiterInputs],
             { [ip \in ClientIps |-> IF ip = IpA THEN n ELSE 0] : n \in EarlierHits })

-----------------------------------------------------------------------------
(* Actions *)

\* What a collaborator answered (the environment's part of the trace)
Settled(call, result, value) ==
    [op |-> "settled", call |-> call, result |-> result, value |-> value]

Finish(r, settled, out) ==
    /\ trace' = [trace EXCEPT ![r] = @ \o settled \o out.events]
    /\ ctx' = [ctx EXCEPT ![r] = out.ctx]
    /\ pc' = [pc EXCEPT ![r] = out.pc]

\* A request arrives and goes through app.use('/webhook', limiter), which is
\* mounted before bodyParser.json() and the routes
Receive(r) ==
    /\ pc[r] = "idle"
    /\ \E in \in pending[r] :
         /\ req' = [req EXCEPT ![r] = in]
         /\ pending' = [pending EXCEPT ![r] = {}]
         /\ IF Limited(in.path)
            THEN LET l == Limiter(hits[in.ip])
                 IN  /\ hits' = [hits EXCEPT ![in.ip] = l.current]
                     /\ IF l.pass
                        THEN /\ pc' = [pc EXCEPT ![r] = "received"]
                             /\ trace' = trace
                        ELSE /\ pc' = [pc EXCEPT ![r] = "done"]
                             /\ trace' = [trace EXCEPT ![r] = @ \o <<TooManyRequests>>]
            ELSE /\ pc' = [pc EXCEPT ![r] = "received"]
                 /\ UNCHANGED <<hits, trace>>
    /\ UNCHANGED <<NODE_ENV, ALLOWED_PHONE_NUMBERS, ctx>>

ParseBody_Lenient(q) ==
    IF q.method = "POST" /\ IsJson(q.raw)
    THEN [ok |-> TRUE, body |-> JSONparse(q.raw)]
    ELSE [ok |-> TRUE, body |-> EmptyObject]

\* bodyParser.json() on one request: a request without body gets {}
ParseBody(q) ==
    IF q.method = "POST"
    THEN IF IsJson(q.raw)
         THEN [ok |-> TRUE, body |-> JSONparse(q.raw)]
         ELSE [ok |-> FALSE, body |-> EmptyObject]
    ELSE [ok |-> TRUE, body |-> EmptyObject]

\* app.use(bodyParser.json()): a body that does not parse is answered 400 by
\* the framework and no route is entered
BodyParserJson(r) ==
    /\ pc[r] = "received"
    /\ LET parsed == ParseBody(req[r])
       IN  IF parsed.ok
           THEN /\ req' = [req EXCEPT ![r] = @ @@ [body |-> parsed.body]]
                /\ pc' = [pc EXCEPT ![r] = "handler"]
                /\ trace' = trace
           ELSE /\ req' = req
                /\ pc' = [pc EXCEPT ![r] = "done"]
                /\ trace' = [trace EXCEPT ![r] =
                               @ \o <<Response(400, TextBodyOf("Bad Request"))>>]
    /\ UNCHANGED <<NODE_ENV, ALLOWED_PHONE_NUMBERS, hits, pending, ctx>>

Routed(r, method, path) ==
    /\ pc[r] = "handler"
    /\ req[r].method = method
    /\ req[r].path = path

\* !mode, !token: undefined and '' are falsy
Falsy(query, name) == ~Has(query, name) \/ query[name] = ""

WebhookGetEvents_TokenOnly(query) ==
    IF Falsy(query, "hub.verify_token")
    THEN <<Response(400, TextBodyOf("Bad Request"))>>
    ELSE IF query["hub.verify_token"] = WHATSAPP_VERIFY_TOKEN
    THEN <<Log("Webhook verified"),
           Response(200, TextBodyOf(IF Has(query, "hub.challenge")
                                    THEN query["hub.challenge"] ELSE ""))>>
    ELSE <<Response(403, TextBodyOf("Forbidden"))>>

\* lines 77-90
WebhookGetEvents(query) ==
    IF Falsy(query, "hub.mode") \/ Falsy(query, "hub.verify_token")
    THEN <<Response(400, TextBodyOf("Bad Request"))>>
    ELSE IF /\ query["hub.mode"] = "subscribe"
            /\ query["hub.verify_token"] = WHATSAPP_VERIFY_TOKEN
    THEN <<Log("Webhook verified"),
           Response(200, TextBodyOf(IF Has(query, "hub.challenge")
                                    THEN query["hub.challenge"] ELSE ""))>>
    ELSE <<Response(403, TextBodyOf("Forbidden"))>>

Answer(r, events) ==
    /\ trace' = [trace EXCEPT ![r] = @ \o events]
    /\ pc' = [pc EXCEPT ![r] = "done"]
    /\ UNCHANGED <<NODE_ENV, ALLOWED_PHONE_NUMBERS, hits, pending, req, ctx>>

\* app.get('/webhook', ...)
WebhookGet(r) ==
    /\ Routed(r, "GET", "/webhook")
    /\ Answer(r, WebhookGetEvents(req[r].query))

RootResponse == Response(200, TextBodyOf("WhatsApp Translator Bot is running!"))

\* app.get('/', ...)
RootGet(r) ==
    /\ Routed(r, "GET", "/")
    /\ Answer(r, <<RootResponse>>)

HealthResponse_Busy ==
    IF \E r \in Requests : pc[r] \in {"awaitTranslate", "awaitFetch"}
    THEN Response(503, [type |-> "json", status |-> "busy",
                        timestamp |-> "new Date().toISOString()"])
    ELSE Response(200, [type |-> "json", status |-> "healthy",
                        timestamp |-> "new Date().toISOString()"])

\* res.status(200).json({ status: 'healthy', timestamp: ... })
HealthResponse ==
    Response(200, [type |-> "json", status |-> "healthy",
                   timestamp |-> "new Date().toISOString()"])

\* app.get('/health', ...)
HealthGet(r) ==
    /\ Routed(r, "GET", "/health")
    /\ Answer(r, <<HealthResponse>>)

\* a handler that skips a request it has already seen
WebhookPost_Dedup(r) ==
    /\ Routed(r, "POST", "/webhook")
    /\ IF \E o \in Requests \ {r} : req[o] = req[r] /\ pc[o] \notin {"idle", "received", "handler"}
       THEN Finish(r, <<>>, Outcome(<<Ack, Log("Duplicate delivery")>>, "done", NoCtx))
       ELSE Finish(r, <<>>, HandlerSync(NODE_ENV, ALLOWED_PHONE_NUMBERS,
                                        req[r].body, req[r].headers))
    /\ UNCHANGED <<NODE_ENV, ALLOWED_PHONE_NUMBERS, hits, pending, req>>

\* app.post('/webhook', ...): the handler up to its first await
WebhookPost(r) ==
    /\ Routed(r, "POST", "/webhook")
    /\ Finish(r, <<>>, HandlerSync(NODE_ENV, ALLOWED_PHONE_NUMBERS, req[r].body, req[r].headers))
    /\ UNCHANGED <<NODE_ENV, ALLOWED_PHONE_NUMBERS, hits, pending, req>>

\* the handler's locals kept in one place for all requests: the values of
\* the request that entered last among those waiting
SharedLocals ==
    LET waiting == { o \in Requests : pc[o] \in {"awaitTranslate", "awaitFetch"} }
    IN  ctx[CHOOSE o \in waiting : \A p \in waiting : p <= o]

TranslateSettles_SharedLocals(r) ==
    /\ pc[r] = "awaitTranslate"
    /\ \/ \E translation \in Translations :
            Finish(r, <<Settled("translate", "resolved", translation)>>,
                   OnTranslateResolved(SharedLocals, translation))
       \/ Finish(r, <<Settled("translate", "rejected", <<>>)>>,
                 OnTranslateRejected(SharedLocals))
    /\ UNCHANGED <<NODE_ENV, ALLOWED_PHONE_NUMBERS, hits, pending, req>>

\* await translate.translate(msg_body, 'en') settles
TranslateSettles(r) ==
    /\ pc[r] = "awaitTranslate"
    /\ \/ \E translation \in Translations :
            Finish(r, <<Settled("translate", "resolved", translation)>>,
                   OnTranslateResolved(ctx[r], translation))
       \/ Finish(r, <<Settled("translate", "rejected", <<>>)>>,
                 OnTranslateRejected(ctx[r]))
    /\ UNCHANGED <<NODE_ENV, ALLOWED_PHONE_NUMBERS, hits, pending, req>>

\* await fetch(url, ...) of sendMessage settles; the following awaits of
\* response.json() (lines 301, 305) touch nothing but this request and are
\* folded into the result: "http_error" is !response.ok, "network_error" a
\* rejected fetch
FetchSettles(r) ==
    /\ pc[r] = "awaitFetch"
    /\ \E result \in FetchResults :
         Finish(r, <<Settled("fetch", result, <<>>)>>, OnFetchSettled(ctx[r], result))
    /\ UNCHANGED <<NODE_ENV, ALLOWED_PHONE_NUMBERS, hits, pending, req>>

Next ==
    \E r \in Requests :
        \/ Receive(r)
        \/ BodyParserJson(r)
        \/ WebhookGet(r)
        \/ WebhookPost(r)
        \/ RootGet(r)
        \/ HealthGet(r)
        \/ TranslateSettles(r)
        \/ FetchSettles(r)

Spec == Init /\ [][Next]_vars

SpecConcurrent == InitConcurrent /\ [][Next]_vars

SpecLimiter == InitLimiter /\ [][Next]_vars

\* Each translation call and each dispatch call eventually returns or fails,
\* and the event loop then resumes the handler that awaits it
CollaboratorsAnswer ==
    \A r \in Requests :
        /\ WF_vars(TranslateSettles(r))
        /\ WF_vars(FetchSettles(r))

SpecLive == InitLive /\ [][Next]_vars /\ CollaboratorsAnswer

-----------------------------------------------------------------------------
(* Reading a request's trace *)

Calls(r, op) == SelectSeq(trace[r], LAMBDA e : e.op = op)

Positions(r, op) == { i \in DOMAIN trace[r] : trace[r][i].op = op }

Logged(r, msg) == \E i \in DOMAIN trace[r] : trace[r][i] = Log(msg)

TypeOK ==
    /\ NODE_ENV \in EnvModes
    /\ \A r \in Requests :
         pc[r] \in {"idle", "received", "handler", "awaitTranslate", "awaitFetch", "done"}

Entered(r) ==
    /\ pc[r] \in {"awaitTranslate", "awaitFetch", "done"}
    /\ req[r].method = "POST"
    /\ Has(req[r], "body")

\* The header carries sha256= and the HMAC of the bytes as received
ValidlySigned(r) ==
    /\ Has(req[r], "headers")
    /\ Has(req[r].headers, SigHeader)
    /\ req[r].headers[SigHeader] = PlatformSignature(WHATSAPP_TOKEN, req[r].raw)

\* The request carries a well-formed single-message envelope
SingleMessage(r) == Has(req[r], "body") /\ req[r].body \in WellFormedMessages

FirstMessage(r) == req[r].body.entry[1].changes[1].value.messages[1]

SettledWith(r, call, result) ==
    \E i \in DOMAIN trace[r] :
        /\ trace[r][i].op = "settled"
        /\ trace[r][i].call = call
        /\ trace[r][i].result = result

-----------------------------------------------------------------------------
(* Claims *)

\* C1: for every POST /webhook request, the acknowledgement (200 'OK') is in
\* the request's trace strictly before every call of the translation client
\* and every call of fetch made for that request.
AckBeforeCollaborators ==
    \A r \in Requests :
        \A i \in Positions(r, "translate") \cup Positions(r, "fetch") :
            \E j \in 1..(i - 1) : trace[r][j] = Ack

AckBeforeCollaboratorsWitness ==
    \E r \in Requests :
        /\ Positions(r, "translate") # {}
        /\ Positions(r, "fetch") # {}

\* C2: in production mode a request whose signature header is missing or is
\* not the HMAC of the body causes no translation call and no dispatch call.
StrictModeRejectsUnverified ==
    \A r \in Requests :
        (NODE_ENV = "production" /\ req[r].method = "POST" /\ ~ValidlySigned(r))
            => (Positions(r, "translate") = {} /\ Positions(r, "fetch") = {})

\* C3: in production mode the text of a message whose sender is not on the
\* allow-list is never passed to the translation client.
ProductionDeniesUnlistedSender ==
    \A r \in Requests :
        (/\ NODE_ENV = "production"
         /\ ctx[r].auth # "none"
         /\ ~Includes(ALLOWED_PHONE_NUMBERS, ctx[r].from))
            => Positions(r, "translate") = {}

\* C4: over the whole processing of one request at most one outbound message
\* is dispatched, whatever the payload and whatever the collaborators return.
AtMostOneDispatch ==
    \A r \in Requests : Len(Calls(r, "fetch")) <= 1

AtMostOneDispatchWitness ==
    \E r \in Requests :
        /\ pc[r] = "done"
        /\ Len(Calls(r, "fetch")) = 1
        /\ SettledWith(r, "fetch", "http_error")

\* C5: for a validly signed message from an allow-listed sender, when the
\* translation returns T and the dispatch succeeds, exactly one dispatch call
\* is made for the request and its body contains T.
ValidMessageGetsOneReply ==
    \A r \in Requests : \A T \in Translations :
        (/\ pc[r] = "done"
         /\ ValidlySigned(r)
         /\ SingleMessage(r)
         /\ Includes(ALLOWED_PHONE_NUMBERS, FirstMessage(r).from)
         /\ Settled("translate", "resolved", T) \in { trace[r][i] : i \in DOMAIN trace[r] }
         /\ SettledWith(r, "fetch", "ok"))
            => /\ Len(Calls(r, "fetch")) = 1
               /\ Contains(Calls(r, "fetch")[1].message, T)
               /\ Calls(r, "fetch")[1].to = FirstMessage(r).from

ValidMessageGetsOneReplyWitness ==
    \E r \in Requests :
        /\ pc[r] = "done"
        /\ NODE_ENV = "production"
        /\ ValidlySigned(r)
        /\ SingleMessage(r)
        /\ Includes(ALLOWED_PHONE_NUMBERS, FirstMessage(r).from)
        /\ Settled("translate", "resolved", <<"Hello">>)
               \in { trace[r][i] : i \in DOMAIN trace[r] }
        /\ SettledWith(r, "fetch", "ok")

\* C6: whenever a sender is denied (production mode, sender not on the
\* allow-list), exactly one dispatch call is made for the request, addressed
\* to the sender with the fixed restriction text, and no translation call.
DeniedSenderGetsOnlyCourtesy ==
    \A r \in Requests :
        (/\ pc[r] = "done"
         /\ NODE_ENV = "production"
         /\ ctx[r].auth # "none"
         /\ ~Includes(ALLOWED_PHONE_NUMBERS, ctx[r].from))
            => /\ Len(Calls(r, "fetch")) = 1
               /\ Calls(r, "fetch")[1].to = ctx[r].from
               /\ Calls(r, "fetch")[1].message = CourtesyText
               /\ Len(Calls(r, "translate")) = 0

DevelopmentPostReturnsTranslation ==
    \A r \in Requests :
        (/\ pc[r] = "done"
         /\ NODE_ENV = "development"
         /\ SingleMessage(r)
         /\ FirstMessage(r).text.body # TextEmpty
         /\ ~Has(req[r].headers, SigHeader))
            => \E i \in Positions(r, "response") :
                   /\ trace[r][i].status = 200
                   /\ trace[r][i].body.type = "json"
                   /\ Has(trace[r][i].body, "translation")

\* C9: the signature check classifies a request verified exactly when its
\* header is sha256= followed by the HMAC of the raw bytes as received.
SignatureOverRawBytes ==
    \A r \in Requests :
        ctx[r].sig \in {"verified", "invalid", "missing"}
            => (ctx[r].sig = "verified" <=> ValidlySigned(r))

\* C10: with allow-list ['15551234567'] the sender '5551234567' is treated as
\* an allow-list match (it is normalized like the list) and the sender
\* '19998887777' is not.
SenderNormalizedBeforeMatch ==
    \A r \in Requests :
        (ALLOWED_PHONE_NUMBERS = <<Num15551234567>> /\ ctx[r].auth # "none")
            => /\ ctx[r].from = Num5551234567 => ctx[r].auth = "match"
               /\ ctx[r].from = Num19998887777 => ctx[r].auth # "match"

\* The first message of the first change of the first entry, when there is one
HasFirstMessage(b) ==
    /\ Has(b, "entry") /\ Len(b.entry) > 0
    /\ Has(b.entry[1], "changes") /\ Len(b.entry[1].changes) > 0
    /\ Has(b.entry[1].changes[1], "value")
    /\ Has(b.entry[1].changes[1].value, "messages")
    /\ Len(b.entry[1].changes[1].value.messages) > 0

TextMissingOrEmpty(m) ==
    \/ ~Has(m, "text")
    \/ ~Has(m.text, "body")
    \/ m.text.body = TextEmpty

\* The envelope holds statuses and no messages
StatusOnly(b) ==
    /\ Has(b, "object") /\ b.object = WABA
    /\ Has(b, "entry") /\ Len(b.entry) > 0
    /\ Has(b.entry[1], "changes") /\ Len(b.entry[1].changes) > 0
    /\ Has(b.entry[1].changes[1], "value")
    /\ Has(b.entry[1].changes[1].value, "statuses")
    /\ \A p \in ChangePaths(b) : MessagesAt(b, p) = <<>>
    /\ ~Has(b.entry[1].changes[1].value, "messages")

FetchFailed(r) ==
    SettledWith(r, "fetch", "http_error") \/ SettledWith(r, "fetch", "network_error")

\* C11: an envelope whose messages[0].text.body is absent or the empty string
\* causes no translation call and no dispatch call.
NoTranslationOfEmptyText ==
    \A r \in Requests :
        (/\ Has(req[r], "body")
         /\ HasFirstMessage(req[r].body)
         /\ TextMissingOrEmpty(FirstMessage(r)))
            => (Positions(r, "translate") = {} /\ Positions(r, "fetch") = {})

\* C12: when the translation call fails, no reply is dispatched for the
\* request and the translation is not called a second time.
TranslationFailureDropsEvent ==
    \A r \in Requests :
        SettledWith(r, "translate", "rejected")
            => (Len(Calls(r, "fetch")) = 0 /\ Len(Calls(r, "translate")) = 1)

TranslationFailureDropsEventWitness ==
    \E r \in Requests :
        /\ pc[r] = "done"
        /\ SettledWith(r, "translate", "rejected")
        /\ Logged(r, "Translation error")

\* C13: when the translation returns an empty result, no reply is dispatched
\* for the request.
EmptyTranslationIsFailure ==
    \A r \in Requests :
        Settled("translate", "resolved", <<>>) \in { trace[r][i] : i \in DOMAIN trace[r] }
            => Len(Calls(r, "fetch")) = 0

\* C14: a failed dispatch is never retried: the request has made exactly one
\* dispatch call, and no translation call follows the failure.
NoRetryAfterFailedDispatch ==
    \A r \in Requests :
        \A i \in DOMAIN trace[r] :
            (/\ trace[r][i].op = "settled"
             /\ trace[r][i].call = "fetch"
             /\ trace[r][i].result # "ok")
                => /\ Len(Calls(r, "fetch")) = 1
                   /\ \A j \in Positions(r, "translate") : j < i

NoRetryAfterFailedDispatchWitness ==
    \E r \in Requests :
        /\ pc[r] = "done"
        /\ SettledWith(r, "translate", "resolved")
        /\ FetchFailed(r)

\* C15: for an envelope that holds statuses and no messages, processing ends
\* in the handler's first run with no translation call and no dispatch call.
StatusUpdateMakesNoCalls ==
    \A r \in Requests :
        (Has(req[r], "body") /\ StatusOnly(req[r].body))
            => /\ Positions(r, "translate") = {}
               /\ Positions(r, "fetch") = {}
               /\ pc[r] \in {"handler", "done"}

StatusUpdateMakesNoCallsWitness ==
    \E r \in Requests :
        /\ pc[r] = "done"
        /\ Has(req[r], "body") /\ StatusOnly(req[r].body)
        /\ Logged(r, "Received status update")

\* C16: every dispatch call of a request uses as channel id the
\* value.metadata.phone_number_id of the request's payload and as recipient
\* the from field of the payload's first message.
DispatchUsesPayloadIds ==
    \A r \in Requests :
        \A i \in Positions(r, "fetch") :
            /\ HasFirstMessage(req[r].body)
            /\ trace[r][i].phone_number_id
                   = req[r].body.entry[1].changes[1].value.metadata.phone_number_id
            /\ trace[r][i].to = FirstMessage(r).from

DispatchUsesPayloadIdsWitness ==
    \E r \in Requests :
        /\ Positions(r, "fetch") # {}
        /\ req[r].body.entry[1].changes[1].value.metadata.phone_number_id = PhoneIdB

IsPost(r) == pc[r] # "idle" /\ req[r].method = "POST"

IsGet(r, path) == pc[r] # "idle" /\ req[r].method = "GET" /\ req[r].path = path

Responses(r) == Calls(r, "response")

\* C17: there is no hidden de-duplication: when the same payload with the
\* same signature is delivered twice, each delivery is run on its own; each
\* makes its own translation call on the message text, and each one whose
\* translation succeeds makes its own dispatch call.
NoHiddenDeduplication ==
    \A r1, r2 \in Requests :
        (/\ r1 # r2
         /\ IsPost(r1) /\ IsPost(r2)
         /\ req[r1] = req[r2]
         /\ pc[r1] = "done" /\ pc[r2] = "done"
         /\ SingleMessage(r1)
         /\ Has(req[r1].headers, SigHeader))
            => \A r \in {r1, r2} :
                   /\ Calls(r, "translate")
                          = <<TranslateCall(FirstMessage(r).text.body, "en")>>
                   /\ SettledWith(r, "translate", "resolved")
                          => Len(Calls(r, "fetch")) = 1

NoHiddenDeduplicationWitness ==
    \E r1, r2 \in Requests :
        /\ r1 # r2
        /\ IsPost(r1) /\ IsPost(r2)
        /\ req[r1] = req[r2]
        /\ pc[r1] = "done" /\ pc[r2] = "done"
        /\ \A r \in {r1, r2} :
               /\ Len(Calls(r, "translate")) = 1
               /\ SettledWith(r, "translate", "resolved")
               /\ Len(Calls(r, "fetch")) = 1
               /\ SettledWith(r, "fetch", "ok")

\* a query parameter counts as missing when it is absent or empty
Missing(query, name) == ~Has(query, name) \/ query[name] = ""

\* C18: GET /webhook answers 400 when hub.mode or hub.verify_token is missing
\* (absent or empty), whatever the other parameters are; otherwise it answers
\* 200 with the hub.challenge value as body exactly when hub.mode is
\* 'subscribe' and hub.verify_token equals the configured verify token, and
\* 403 in every other case.
VerificationHandshake ==
    \A r \in Requests :
        (IsGet(r, "/webhook") /\ pc[r] = "done")
            => LET q == req[r].query
                   challenge == IF Has(q, "hub.challenge")
                                THEN q["hub.challenge"] ELSE ""
               IN  /\ Len(Responses(r)) = 1
                   /\ Positions(r, "translate") = {} /\ Positions(r, "fetch") = {}
                   /\ IF Missing(q, "hub.mode") \/ Missing(q, "hub.verify_token")
                      THEN Responses(r)[1].status = 400
                      ELSE IF /\ q["hub.mode"] = "subscribe"
                              /\ q["hub.verify_token"] = WHATSAPP_VERIFY_TOKEN
                      THEN Responses(r)[1] = Response(200, TextBodyOf(challenge))
                      ELSE Responses(r)[1].status = 403

VerificationHandshakeWitness ==
    \E r \in Requests :
        /\ IsGet(r, "/webhook") /\ pc[r] = "done"
        /\ Has(req[r].query, "hub.mode") /\ req[r].query["hub.mode"] = "unsubscribe"
        /\ Has(req[r].query, "hub.verify_token")
        /\ req[r].query["hub.verify_token"] = WHATSAPP_VERIFY_TOKEN
        /\ Responses(r)[1].status = 403

\* C19: a POST whose body is not valid JSON is answered 400 by the framework:
\* the acknowledgement 200 is never sent for it and neither translation nor
\* dispatch is called.
MalformedJsonRejected ==
    \A r \in Requests :
        (IsPost(r) /\ ~IsJson(req[r].raw))
            => /\ Ack \notin { trace[r][i] : i \in DOMAIN trace[r] }
               /\ Positions(r, "translate") = {}
               /\ Positions(r, "fetch") = {}
               /\ pc[r] \in {"received", "done"}
               /\ pc[r] = "done"
                      => /\ Len(Responses(r)) = 1
                         /\ Responses(r)[1].status = 400

MalformedJsonRejectedWitness ==
    \E r \in Requests :
        /\ IsPost(r) /\ ~IsJson(req[r].raw)
        /\ pc[r] = "done"
        /\ Responses(r) = <<Response(400, TextBodyOf("Bad Request"))>>

IsProbe(r) == IsGet(r, "/") \/ IsGet(r, "/health")

InFlight(r) == pc[r] \in {"awaitTranslate", "awaitFetch"}

\* C20: GET / and GET /health answer 200 in every state of the service,
\* whatever webhook requests are being processed at the time; a probe that
\* has reached its route can always be answered.
ProbesAlwaysAnswer200 ==
    \A r \in Requests :
        IsProbe(r)
            => /\ pc[r] = "handler" => ENABLED (RootGet(r) \/ HealthGet(r))
               /\ pc[r] = "done"
                      => /\ Len(Responses(r)) = 1
                         /\ Responses(r)[1].status = 200
                         /\ IsGet(r, "/") => Responses(r)[1] = RootResponse
                         /\ IsGet(r, "/health") => Responses(r)[1].body.status = "healthy"

ProbesAlwaysAnswer200Witness ==
    \E r, o \in Requests :
        /\ IsGet(r, "/health") /\ pc[r] = "done"
        /\ Responses(r)[1].status = 200
        /\ \E i \in DOMAIN trace[o] : trace[o][i] = Ack
        /\ InFlight(o)

\* C21: the comparison of the received signature with the expected one is
\* constant-time-equivalent: every evaluation of it reads all the code units
\* of the two values, wherever they first differ.
SignatureComparisonConstantTime ==
    \A r \in Requests :
        \A i \in Positions(r, "compare") :
            trace[r][i].steps = SchemeLength + HexDigestLength

\* Every POST /webhook delivery of the model to a server started in the
\* current mode, with any allow-list
Deliveries ==
    { [env |-> NODE_ENV, allowed |-> BuildAllowList(a), b |-> JSONparse(in.raw),
       headers |-> in.headers] :
        a \in AllowedEnvValues,
        in \in { x \in AllInputs : x.method = "POST" /\ IsJson(x.raw) } }

Sync(d) == HandlerSync(d.env, d.allowed, d.b, d.headers)

RejectedParseReachable ==
    \E d \in Deliveries : ValidationErrors(d.b, d.headers) # {}

RejectedSignatureReachable ==
    \E d \in Deliveries :
        /\ ValidationErrors(d.b, d.headers) = {}
        /\ ~SignatureStage(d.env, d.headers, d.b).go

DeniedReachable ==
    \E d \in Deliveries :
        /\ Sync(d).pc = "awaitFetch"
        /\ Sync(d).ctx.auth = "denied"

FailedTranslationReachable ==
    \E d \in Deliveries :
        /\ Sync(d).pc = "awaitTranslate"
        /\ OnTranslateRejected(Sync(d).ctx).pc = "done"

FailedDispatchReachable ==
    \E d \in Deliveries, t \in Translations :
        /\ Sync(d).pc = "awaitTranslate"
        /\ OnTranslateResolved(Sync(d).ctx, t).pc = "awaitFetch"
        /\ OnFetchSettled(OnTranslateResolved(Sync(d).ctx, t).ctx, "http_error").pc = "done"

DoneReachable ==
    \E d \in Deliveries, t \in Translations :
        /\ Sync(d).pc = "awaitTranslate"
        /\ OnTranslateResolved(Sync(d).ctx, t).pc = "awaitFetch"
        /\ OnFetchSettled(OnTranslateResolved(Sync(d).ctx, t).ctx, "ok").events
               = <<Log("Translation successful")>> \o Completed

\* C22: on a server in production mode each terminal state of a request is
\* reached by some allow-list, input and collaborator behaviour: rejected for
\* a parse error, rejected for an invalid signature (strict mode), denied
\* with the courtesy reply sent, failed in translation, failed in dispatch,
\* and done with the reply sent.
EveryTerminalReachable ==
    NODE_ENV = "production" =>
    /\ RejectedParseReachable
    /\ FailedTranslationReachable
    /\ FailedDispatchReachable
    /\ DoneReachable
    /\ RejectedSignatureReachable
    /\ DeniedReachable

\* The log lines on which the handler's processing ends
TerminalLogs ==
    { Log("Processing completed successfully"), Log("Error processing webhook"),
      Log("Validation failed"), Log("Missing signature"),
      Log("Invalid signature received") }

Last(r) == trace[r][Len(trace[r])]

\* C23: no fault escapes the POST /webhook handler after the acknowledgement:
\* for every payload shape and every failure of translation or dispatch the
\* processing of an acknowledged request ends on a terminal log line (or on
\* the return that follows a delivered courtesy reply), never on an unhandled
\* exception or rejection.
NoFaultEscapesHandler ==
    \A r \in Requests :
        (IsPost(r) /\ pc[r] = "done" /\ Positions(r, "response") # {}
                   /\ Responses(r)[1] = Ack)
            => /\ Positions(r, "unhandledRejection") = {}
               /\ \/ Last(r) \in TerminalLogs
                  \/ /\ ctx[r].branch = "courtesy"
                     /\ Last(r) = Settled("fetch", "ok", <<>>)

NoFaultEscapesHandlerWitness ==
    \E r \in Requests :
        /\ IsPost(r) /\ pc[r] = "done"
        /\ Responses(r) = <<Ack>>
        /\ SettledWith(r, "fetch", "network_error")
        /\ Logged(r, "Translation error")
        /\ Last(r) = Log("Processing completed successfully")

\* An envelope without the discriminator or with another one, without
\* entries, changes or value (missing or empty), or whose value holds neither
\* messages nor statuses
Degenerate(b) ==
    \/ ~Has(b, "object")
    \/ b.object # WABA
    \/ ~Has(b, "entry")
    \/ Len(b.entry) = 0
    \/ ~Has(b.entry[1], "changes")
    \/ Len(b.entry[1].changes) = 0
    \/ ~Has(b.entry[1].changes[1], "value")
    \/ /\ ~Has(b.entry[1].changes[1].value, "messages")
       /\ ~Has(b.entry[1].changes[1].value, "statuses")

\* C24: an envelope whose discriminator is missing or is not
\* 'whatsapp_business_account', whose entries, changes or value are missing or
\* empty, or whose value holds neither messages nor statuses, causes no
\* translation call and no dispatch call.
DegenerateEnvelopeMakesNoCalls ==
    \A r \in Requests :
        (IsPost(r) /\ Has(req[r], "body") /\ Degenerate(req[r].body))
            => /\ Positions(r, "translate") = {}
               /\ Positions(r, "fetch") = {}
               /\ pc[r] \in {"handler", "done"}

DegenerateEnvelopeMakesNoCallsWitness ==
    \E r \in Requests :
        /\ IsPost(r) /\ pc[r] = "done"
        /\ Has(req[r], "body") /\ Degenerate(req[r].body)
        /\ HasFirstMessage(req[r].body)
        /\ Logged(r, "Invalid request format")

Acknowledged(r) == \E i \in DOMAIN trace[r] : trace[r][i] = Ack

\* C25: every acknowledged request eventually reaches the end of its
\* processing, provided each translation call and each dispatch call
\* eventually returns or fails; neither the response nor another request
\* aborts it.
AcknowledgedEventuallyTerminal ==
    \A r \in Requests : Acknowledged(r) ~> (pc[r] = "done")

AcknowledgedEventuallyTerminalWitness ==
    \E r, o \in Requests :
        /\ Acknowledged(r) /\ pc[r] = "done"
        /\ SettledWith(r, "translate", "resolved")
        /\ SettledWith(r, "fetch", "http_error")
        /\ o # r /\ Acknowledged(o) /\ InFlight(o)

\* What the collaborators answered to request r, in order
Answers(r) == Calls(r, "settled")

\* The continuation after the first answer of a request handled alone
AfterFirstAnswer(h, a) ==
    IF h.pc = "awaitTranslate"
    THEN IF a.result = "resolved"
         THEN OnTranslateResolved(h.ctx, a.value)
         ELSE OnTranslateRejected(h.ctx)
    ELSE OnFetchSettled(h.ctx, a.result)

\* The trace of request r sent with the given headers, when it is the only
\* request of the server and its collaborators give the answers r got
TraceWith(r, headers) ==
    LET h == HandlerSync(NODE_ENV, ALLOWED_PHONE_NUMBERS, req[r].body, headers)
        a == Answers(r)
    IN  IF h.pc = "done" \/ Len(a) = 0
        THEN h.events
        ELSE LET o1 == AfterFirstAnswer(h, a[1])
             IN  IF o1.pc = "done" \/ Len(a) = 1
                 THEN h.events \o <<a[1]>> \o o1.events
                 ELSE h.events \o <<a[1]>> \o o1.events \o <<a[2]>>
                          \o OnFetchSettled(o1.ctx, a[2].result).events

AloneTrace(r) == TraceWith(r, req[r].headers)

\* C26: under every interleaving of concurrently processed POST /webhook
\* requests, each request's outcome is the one it has alone: the same calls
\* and log lines in the same order, its reply addressed to its own sender on
\* its own channel with the translation of its own text, and one translation
\* call and at most one dispatch call.
IsolatedFromOtherRequests ==
    \A r \in Requests :
        (IsPost(r) /\ Has(req[r], "body") /\ pc[r] # "handler")
            => /\ trace[r] = AloneTrace(r)
               /\ SingleMessage(r) =>
                    /\ Calls(r, "translate")
                           = <<TranslateCall(FirstMessage(r).text.body, "en")>>
                    /\ \A i \in Positions(r, "fetch") :
                          /\ trace[r][i].to = FirstMessage(r).from
                          /\ trace[r][i].phone_number_id
                                 = req[r].body.entry[1].changes[1].value.metadata.phone_number_id
                          /\ trace[r][i].message = ReplyText(Answers(r)[1].value)
                    /\ Len(Calls(r, "fetch"))
                           = IF SettledWith(r, "translate", "resolved") THEN 1 ELSE 0

IsolatedFromOtherRequestsWitness ==
    \E r, o \in Requests :
        /\ IsPost(r) /\ IsPost(o)
        /\ pc[r] = "done" /\ SettledWith(r, "fetch", "ok")
        /\ pc[o] = "awaitFetch"
        /\ FirstMessage(r).from # FirstMessage(o).from
        /\ FirstMessage(r).text.body # FirstMessage(o).text.body

\* What the signature stage writes when it lets a request through
SignaturePassLogs ==
    { Log("Signature verified successfully"),
      Log("Missing signature, but continuing due to DEBUG mode"),
      Log("Invalid signature received, but continuing due to DEBUG mode") }

BypassLog == Log("Unauthorized phone number bypassed in DEBUG mode")

SignatureStageEvent(e) == e.op = "compare" \/ e \in SignaturePassLogs

\* C27: within one request the stages run in the order validate, verify
\* signature, authorize, translate, dispatch: when translation is called the
\* validation has passed and the signature stage and the authorization stage
\* have completed (all they write is earlier in the trace), and a translated
\* reply is dispatched only after the translation call has returned
\* successfully, with the text it returned.
StagesRunInOrder ==
    \A r \in Requests :
        /\ \A i \in Positions(r, "translate") :
              /\ ValidationErrors(req[r].body, req[r].headers) = {}
              /\ ctx[r].sig \in {"skipped", "verified", "missing", "invalid"}
              /\ ctx[r].auth \in {"match", "bypassed"}
              /\ NODE_ENV = "production"
                     => \E j \in 1..(i - 1) : trace[r][j] \in SignaturePassLogs
              /\ ~Includes(ALLOWED_PHONE_NUMBERS, ctx[r].from)
                     => \E j \in 1..(i - 1) : trace[r][j] = BypassLog
              /\ \A j \in DOMAIN trace[r] :
                     (SignatureStageEvent(trace[r][j]) \/ trace[r][j] = BypassLog)
                         => j < i
        /\ \A i \in Positions(r, "fetch") :
              trace[r][i].message # CourtesyText
                  => \E j \in 1..(i - 1), k \in 1..(i - 1) :
                        /\ k < j
                        /\ trace[r][k].op = "translate"
                        /\ trace[r][j].op = "settled"
                        /\ trace[r][j].call = "translate"
                        /\ trace[r][j].result = "resolved"
                        /\ trace[r][i].message = ReplyText(trace[r][j].value)

StagesRunInOrderWitness ==
    \E r \in Requests :
        /\ pc[r] = "done" /\ NODE_ENV = "production"
        /\ Logged(r, "Invalid signature received, but continuing due to DEBUG mode")
        /\ Logged(r, "Unauthorized phone number bypassed in DEBUG mode")
        /\ SettledWith(r, "translate", "resolved")
        /\ SettledWith(r, "fetch", "ok")

\* C28: when the courtesy reply to a denied sender (production mode, sender
\* not on the allow-list) fails to be dispatched, the acknowledgement stays
\* the single 200 response and the event is discarded: no translation call,
\* no dispatch besides the courtesy reply, and the failure ends in the
\* handler's own catch.
CourtesyFailureIsContained ==
    \A r \in Requests :
        (/\ pc[r] = "done"
         /\ NODE_ENV = "production"
         /\ ctx[r].auth # "none"
         /\ ~Includes(ALLOWED_PHONE_NUMBERS, ctx[r].from)
         /\ FetchFailed(r))
            => /\ Responses(r) = <<Ack>>
               /\ Len(Calls(r, "translate")) = 0
               /\ Len(Calls(r, "fetch")) = 1
               /\ Calls(r, "fetch")[1].message = CourtesyText
               /\ Last(r) = Log("Error processing webhook")

\* The sender of the request's first message is on the allow-list
SenderListed(r) == Includes(ALLOWED_PHONE_NUMBERS, FirstMessage(r).from)

\* C29: when a sender that is not on the allow-list is let through by the
\* debug bypass, the 'bypassed' log line is recorded for the request before
\* its translation call; a request whose sender is on the allow-list never
\* records that line.
BypassIsDistinguishable ==
    \A r \in Requests :
        /\ \A i \in Positions(r, "translate") :
              ~SenderListed(r) => \E j \in 1..(i - 1) : trace[r][j] = BypassLog
        /\ Logged(r, "Unauthorized phone number bypassed in DEBUG mode")
              => /\ HasFirstMessage(req[r].body)
                 /\ ~SenderListed(r)

BypassIsDistinguishableWitness ==
    \E r \in Requests :
        /\ pc[r] = "done"
        /\ Positions(r, "translate") # {}
        /\ ~SenderListed(r)
        /\ FirstMessage(r).from = Num19998887777
        /\ Logged(r, "Unauthorized phone number bypassed in DEBUG mode")

\* The signature header matches neither the bytes sent nor the body as the
\* server renders it
Unverifiable(r) ==
    /\ req[r].headers[SigHeader] # PlatformSignature(WHATSAPP_TOKEN, req[r].raw)
    /\ req[r].headers[SigHeader]
           # PlatformSignature(WHATSAPP_TOKEN, JSONstringify(req[r].body))

SignatureContinueLogs ==
    { Log("Missing signature, but continuing due to DEBUG mode"),
      Log("Invalid signature received, but continuing due to DEBUG mode"),
      Log("Continuing despite signature verification failure due to DEBUG mode") }

\* C30: whenever processing continues for a request whose signature is
\* missing or mismatched (relaxed mode), a log line recording that decision
\* is written for the request before translation is called.
RelaxedContinuationIsLogged ==
    \A r \in Requests :
        \A i \in Positions(r, "translate") :
            Unverifiable(r)
                => \E j \in 1..(i - 1) : trace[r][j] \in SignatureContinueLogs

\* The envelope holds more than one entry, change or message
Batched(b) ==
    /\ Has(b, "entry") /\ Len(b.entry) > 0
    /\ \/ Len(b.entry) > 1
       \/ /\ Has(b.entry[1], "changes")
          /\ Len(b.entry[1].changes) > 1
       \/ /\ HasFirstMessage(b)
          /\ Len(b.entry[1].changes[1].value.messages) > 1

\* C31: only the first entry, first change and first message of an envelope
\* are processed: at most one translation call is made for a request, on the
\* text of entry[0].changes[0].value.messages[0], the reply goes to that
\* message's sender, and no other message of the envelope causes a call.
OnlyFirstMessageProcessed ==
    \A r \in Requests :
        /\ Len(Calls(r, "translate")) <= 1
        /\ Len(Calls(r, "fetch")) <= 1
        /\ \A i \in Positions(r, "translate") :
              /\ HasFirstMessage(req[r].body)
              /\ trace[r][i].text = FirstMessage(r).text.body
        /\ \A i \in Positions(r, "fetch") :
              /\ HasFirstMessage(req[r].body)
              /\ trace[r][i].to = FirstMessage(r).from

OnlyFirstMessageProcessedWitness ==
    \E r \in Requests :
        /\ IsPost(r) /\ pc[r] = "done"
        /\ Has(req[r], "body") /\ HasFirstMessage(req[r].body)
        /\ Batched(req[r].body)
        /\ Len(req[r].body.entry[1].changes[1].value.messages) > 1
        /\ Calls(r, "translate") = <<TranslateCall(TextHola, "en")>>
        /\ SettledWith(r, "fetch", "ok")

\* An allow-list entry as the start-up code leaves it
NormalizedEntry(e) ==
    /\ Len(e) > 0
    /\ \A k \in DOMAIN e : IsDigit(e[k])
    /\ e[1] = "1"
    /\ NormalizeNumber(e) = e

AllowListNormalized ==
    \A i \in DOMAIN ALLOWED_PHONE_NUMBERS : NormalizedEntry(ALLOWED_PHONE_NUMBERS[i])

\* C32: every allow-list entry built at start-up consists of digits only and
\* begins with '1', normalizing it again returns it unchanged, and no step of
\* the handling of any request modifies the allow-list.
AllowListNormalizedAndReadOnly ==
    /\ []AllowListNormalized
    /\ [][ALLOWED_PHONE_NUMBERS' = ALLOWED_PHONE_NUMBERS]_vars

AllowListNormalizedAndReadOnlyWitness ==
    \E r \in Requests :
        /\ pc[r] = "done"
        /\ Positions(r, "fetch") # {}
        /\ ALLOWED_PHONE_NUMBERS = BuildAllowList(NumDashed)
        /\ ALLOWED_PHONE_NUMBERS # <<NumDashed>>

PresentSignatures(raw) ==
    { h[SigHeader] : h \in { x \in HeadersFor(raw) : Has(x, SigHeader) } }

CollaboratorCalls(t) == SelectSeq(t, LAMBDA e : e.op \in {"translate", "fetch"})

\* C35: when NODE_ENV is not 'production' the value of a present
\* x-hub-signature-256 header has no influence on processing: the request
\* sent with any other value of the header causes the same translation and
\* dispatch calls.
HeaderValueIrrelevantOutsideProduction ==
    \A r \in Requests :
        (NODE_ENV # "production" /\ Entered(r) /\ Has(req[r].headers, SigHeader))
            => \A v \in PresentSignatures(req[r].raw) :
                   CollaboratorCalls(TraceWith(r, WithSignature(v)))
                       = CollaboratorCalls(trace[r])

HeaderValueIrrelevantOutsideProductionWitness ==
    \E r \in Requests :
        /\ NODE_ENV # "production" /\ Entered(r) /\ pc[r] = "done"
        /\ Has(req[r].headers, SigHeader)
        /\ req[r].headers[SigHeader] = PlatformSignature("other-secret", req[r].raw)
        /\ Len(Calls(r, "translate")) = 1
        /\ SettledWith(r, "fetch", "ok")

\* The request has arrived at a path the limiter is mounted on
Counted(r) == pc[r] # "idle" /\ Limited(req[r].path)

\* The limiter answered the request and nothing else happened to it
Refused(r) == pc[r] = "done" /\ trace[r] = <<TooManyRequests>>

\* The request got past the limiter to the parser and the routes
Admitted(r) == pc[r] # "idle" /\ TooManyRequests \notin { trace[r][i] : i \in DOMAIN trace[r] }

\* The requests of one client the limiter has counted, and those among
\* them it has refused
CountedFrom(ip) == { r \in Requests : Counted(r) /\ req[r].ip = ip }

RefusedFrom(ip) == { r \in CountedFrom(ip) : Refused(r) }

\* What is over the limit in the count of a client
Excess(ip) == IF hits[ip] > RateLimitMax THEN hits[ip] - RateLimitMax ELSE 0

WithinLimit ==
    /\ \A ip \in ClientIps :
          /\ hits[ip] >= Cardinality(CountedFrom(ip))
          /\ Excess(ip) <= Cardinality(CountedFrom(ip))
                => Cardinality(RefusedFrom(ip)) = Excess(ip)
          /\ Cardinality(CountedFrom(ip) \ RefusedFrom(ip)) <= RateLimitMax
    /\ \A r \in Requests :
          /\ Counted(r) =>
                /\ Admitted(r) \/ Refused(r)
                /\ Refused(r) => (~Acknowledged(r) /\ CollaboratorCalls(trace[r]) = <<>>)
          /\ (pc[r] # "idle" /\ ~Limited(req[r].path)) =>
                /\ Admitted(r)
                /\ pc[r] = "done" => \E i \in DOMAIN trace[r] :
                                         /\ trace[r][i].op = "response"
                                         /\ trace[r][i].status = 200

\* A step changes the count of a client only by one and only for a request
\* of that client to /webhook, GET or POST; the request passes when the
\* client had fewer than 100 counted in the window and is refused otherwise
CountsOwnRequests ==
    /\ \A ip \in ClientIps :
          hits'[ip] # hits[ip] =>
              /\ hits'[ip] = hits[ip] + 1
              /\ \E r \in Requests :
                     /\ pc[r] = "idle" /\ pc'[r] # "idle"
                     /\ req'[r].ip = ip /\ Limited(req'[r].path)
                     /\ req'[r].method \in {"GET", "POST"}
    /\ \A r \in Requests :
          (pc[r] = "idle" /\ pc'[r] # "idle" /\ Limited(req'[r].path)) =>
              /\ hits'[req'[r].ip] = hits[req'[r].ip] + 1
              /\ hits[req'[r].ip] < RateLimitMax => (pc'[r] = "received" /\ trace'[r] = <<>>)
              /\ hits[req'[r].ip] >= RateLimitMax =>
                    (pc'[r] = "done" /\ trace'[r] = <<TooManyRequests>>)

\* C36: requests to /webhook, GET and POST counted together, are limited per
\* client IP to 100 per window: within one window at most 100 requests of one
\* IP reach the webhook handlers, and every further request of that IP is
\* rejected with no acknowledgement 200, no translation call and no dispatch
\* call, while requests of other IPs and requests to / and /health are
\* unaffected.
WebhookRateLimited == []WithinLimit /\ [][CountsOwnRequests]_vars

WebhookRateLimitedWitness ==
    \E r, q \in Requests :
        /\ IsPost(q) /\ IsPost(r)
        /\ req[r].ip = IpA /\ req[q].ip = IpA
        /\ hits[IpA] = RateLimitMax + 1
        /\ Acknowledged(q) /\ Len(Calls(q, "translate")) = 1
        /\ Refused(r)

=============================================================================
